---- MODULE Spec2Model ----
(***************************************************************************)
(* Model of mlhep2019/pivot/plotting.py: make_grid, draw_response,         *)
(* nuisance_prediction_hist and nuisance_metric_plot.                      *)
(*                                                                         *)
(* Numbers.  A float64 array is a sequence of integer numerators over a    *)
(* common denominator stated next to it (GridDen, LinspaceDen, NuDen):     *)
(* float64 arithmetic is taken as exact.  A float32 value keeps only       *)
(* F32Bits significant bits of the numerator (round to nearest, ties to    *)
(* even), so that astype('float32') is a conversion that can change the    *)
(* value, as it does in numpy.                                             *)
(*                                                                         *)
(* The plotting backend is the sequence `surface` of the draw calls one    *)
(* invocation has issued, in order.                                        *)
(***************************************************************************)
EXTENDS Integers, Sequences, FiniteSets, TLC

VARIABLES
  pc,             \* the routine that has just run ("start" before any)
  args,           \* the arguments of that call
  error,          \* the exception it raised, or NoError
  surface,        \* the draw calls it issued on the plotting backend
  xs, ys, grid,   \* make_grid: its three return values
  Z,              \* draw_response: the reshaped probabilities
  nuisance_bins,  \* nuisance_prediction_hist: the local after lines 49-51
  nu_bins,        \* nuisance bin edges (numerators)
  p_bins,         \* prediction bin edges (numerators)
  hists,          \* one 2D count table per model
  indx,           \* nuisance_metric_plot: the bin index of every sample
  calls,          \* nuisance_metric_plot: the calls made to metric_fn
  metrics         \* nuisance_metric_plot: one metric array per model

vars == <<pc, args, error, surface, xs, ys, grid, Z, nuisance_bins, nu_bins,
          p_bins, hists, indx, calls, metrics>>

NoError == "none"
None == "None"

----------------------------------------------------------------------------
(* Bounds of the model.                                                    *)

MaxRows == 2      \* rows of the data matrix given to make_grid
MaxSize == 3      \* the size argument of make_grid
Coords == {0, 1, 2}   \* the coordinates a data point may take

MaxSamples == 2   \* samples in a prediction, label or nuisance vector
MaxPBins == 3     \* the prediction_bins argument
MaxNuBins == 2    \* the nuisance_bins argument
PredDen == 2      \* predictions are multiples of 1 / PredDen
PredValues == {0, 1, 2}          \* numerators of the predictions tried
NuValues == {0, 2}               \* nuisance values, unsigned or float
NuValuesSigned == {-1, 0, 2}     \* nuisance values of a signed integer type
ModelCounts == {1, 2}            \* len(predictions)

MaxBins == 2      \* bins the adaptive binning may return
LabelValues == {5, 10}           \* labels in tenths: 0.5 and 1.0
ScoreValues == {3, 42}           \* numerators of the predictions scored
BaseLevels == {5, 9}             \* base_level in tenths
MetricFns == {"constant", "dot"}

----------------------------------------------------------------------------
(* Arithmetic helpers.                                                     *)

Abs(n) == IF n < 0 THEN -n ELSE n

RECURSIVE SeqMin(_)
SeqMin(s) ==
  IF Len(s) = 1 THEN s[1]
  ELSE LET m == SeqMin(Tail(s)) IN IF s[1] < m THEN s[1] ELSE m

RECURSIVE SeqMax(_)
SeqMax(s) ==
  IF Len(s) = 1 THEN s[1]
  ELSE LET m == SeqMax(Tail(s)) IN IF s[1] > m THEN s[1] ELSE m

RECURSIVE BitLen(_)
BitLen(n) == IF n = 0 THEN 0 ELSE 1 + BitLen(n \div 2)

RECURSIVE Pow2(_)
Pow2(k) == IF k = 0 THEN 1 ELSE 2 * Pow2(k - 1)

\* n >= 0 rounded to the nearest multiple of q, ties to the even multiple.
RoundHalfEven(n, q) ==
  LET lo == (n \div q) * q
      r  == n - lo
  IN  IF 2 * r < q THEN lo
      ELSE IF 2 * r > q THEN lo + q
      ELSE IF (n \div q) % 2 = 0 THEN lo ELSE lo + q

\* Significant bits a float32 keeps in this model (24 in IEEE 754).
F32Bits == 3

\* astype('float32') / np.array(..., dtype='float32') on one value.
ToFloat32(n) ==
  LET a == Abs(n)
      b == BitLen(a)
      q == IF b > F32Bits THEN Pow2(b - F32Bits) ELSE 1
      r == RoundHalfEven(a, q)
  IN  IF n < 0 THEN -r ELSE r

----------------------------------------------------------------------------
(* numpy helpers.                                                          *)

\* np.linspace(start, stop, num) is start + j*(stop-start)/(num-1); the
\* result is given in units of 1/LinspaceDen(num) of the unit of start.
LinspaceDen(num) == IF num > 1 THEN num - 1 ELSE 1

linspace(start, stop, num) ==
  [j \in 1..num |-> LinspaceDen(num) * start + (j - 1) * (stop - start)]

\* np.meshgrid(xs, ys) with the default indexing='xy': both results have
\* len(ys) rows and len(xs) columns.
meshgrid_X_ij(x, y) == [i \in 1..Len(x) |-> [j \in 1..Len(y) |-> x[i]]]

meshgrid_X(x, y) == [i \in 1..Len(y) |-> [j \in 1..Len(x) |-> x[j]]]
meshgrid_Y(x, y) == [i \in 1..Len(y) |-> [j \in 1..Len(x) |-> y[i]]]

\* a.reshape(-1) of a 2D array: the rows one after the other (C order).
RECURSIVE ravel(_)
ravel(m) == IF Len(m) = 0 THEN <<>> ELSE m[1] \o ravel(Tail(m))

\* np.stack([a, b]).astype('float32').T : one row <<a[k], b[k]>> per k.
stack_f32_T(a, b) == [k \in 1..Len(a) |-> <<ToFloat32(a[k]), ToFloat32(b[k])>>]

\* a.reshape(rows, cols) of a 1D array in C order: the exception raised (a
\* ValueError when the size does not match) and the reshaped array.
ShapeError == "ValueError"

RECURSIVE chunks(_, _)
chunks(a, cols) ==
  IF Len(a) = 0 THEN <<>>
  ELSE <<SubSeq(a, 1, cols)>> \o chunks(SubSeq(a, cols + 1, Len(a)), cols)

\* Fortran order instead of C order.
reshape_F(a, rows, cols) ==
  IF Len(a) # rows * cols THEN [error |-> ShapeError, value |-> <<>>]
  ELSE [error |-> NoError,
        value |-> [i \in 1..rows |-> [j \in 1..cols |-> a[(j - 1) * rows + i]]]]

\* reshape(-1, cols): the number of rows is inferred, not checked.
reshape_infer(a, rows, cols) ==
  IF Len(a) % cols # 0 THEN [error |-> ShapeError, value |-> <<>>]
  ELSE [error |-> NoError, value |-> chunks(a, cols)]

reshape(a, rows, cols) ==
  IF Len(a) # rows * cols THEN [error |-> ShapeError, value |-> <<>>]
  ELSE [error |-> NoError, value |-> chunks(a, cols)]

\* a[mask]: the entries of a whose index satisfies the mask, in order.
RECURSIVE mask_select(_, _)
mask_select(a, mask) ==
  IF Len(a) = 0 THEN <<>>
  ELSE (IF mask[1] THEN <<a[1]>> ELSE <<>>) \o mask_select(Tail(a), Tail(mask))

----------------------------------------------------------------------------
(* make_grid (lines 14-24).  xs, ys and grid are in units of               *)
(* 1 / GridDen(size).                                                      *)

PadDen == 20    \* 0.05 = 1/20

GridDen(size) == PadDen * LinspaceDen(size)

column(data, c) == [r \in 1..Len(data) |-> data[r][c]]

\* The same without the padding of the bounds.
axis_points_nopad(data, c, size) ==
  LET data_min == SeqMin(column(data, c))
      data_max == SeqMax(column(data, c))
  IN  linspace(PadDen * data_min, PadDen * data_max, size)

\* lines 15-19 for one axis c: the evenly spaced points of that axis.
axis_points(data, c, size) ==
  LET data_min == SeqMin(column(data, c))
      data_max == SeqMax(column(data, c))
      delta    == data_max - data_min
  IN  linspace(PadDen * data_min - delta, PadDen * data_max + delta, size)

\* lines 21-23.
make_grid_grid(x, y) ==
  stack_f32_T(ravel(meshgrid_X(x, y)), ravel(meshgrid_Y(x, y)))

DataMatrices ==
  UNION {[1..n -> Coords \X Coords] : n \in 1..MaxRows}

MakeGrid ==
  /\ pc = "start"
  /\ \E data \in DataMatrices, size \in 1..MaxSize :
    LET x == axis_points(data, 1, size)
        y == axis_points(data, 2, size)
    IN  /\ pc' = "make_grid"
        /\ args' = [data |-> data, size |-> size]
        /\ error' = NoError
        /\ surface' = <<>>
        /\ xs' = x
        /\ ys' = y
        /\ grid' = make_grid_grid(x, y)
        /\ Z' = <<>>
        /\ UNCHANGED <<nuisance_bins, nu_bins, p_bins, hists, indx, calls,
                       metrics>>

----------------------------------------------------------------------------
(* draw_response (lines 26-34), called on the xs and ys of the last        *)
(* make_grid and on its data matrix.                                       *)

\* The probability vectors tried for a grid of n points: lengths n-1, n and
\* n+1, with all entries distinct or with repeated entries.
ProbVectors(n) ==
  {[k \in 1..m |-> (k * s) % 5] : m \in {n - 1, n, n + 1} \ {0}, s \in {1, 2}}
    \cup {[k \in 1..n |-> k]}

LabelVectors(n) == [1..n -> {0, 1}]

\* The body of draw_response: the exception it ends with, the reshaped
\* matrix and the draw calls issued before it returned or raised.
draw_response(x, y, probabilities, data, labels) ==
  LET r   == reshape(probabilities, Len(y), Len(x))
      p   == r.value
      pos == [s \in 1..Len(labels) |-> 2 * labels[s] > 1]
      neg == [s \in 1..Len(labels) |-> 2 * labels[s] < 1]
  IN  IF r.error # NoError
      THEN [error |-> r.error, Z |-> <<>>, surface |-> <<>>]
      ELSE [error |-> NoError,
            Z |-> p,
            surface |->
              << [fn |-> "contourf", x |-> x, y |-> y, z |-> p],
                 [fn |-> "scatter", x |-> mask_select(column(data, 1), pos),
                                    y |-> mask_select(column(data, 2), pos)],
                 [fn |-> "scatter", x |-> mask_select(column(data, 1), neg),
                                    y |-> mask_select(column(data, 2), neg)],
                 [fn |-> "contour", x |-> x, y |-> y, z |-> p] >>]

DrawResponse ==
  /\ pc = "make_grid"
  /\ \E probabilities \in ProbVectors(Len(xs) * Len(ys)),
        labels \in LabelVectors(Len(args.data)) :
       LET r == draw_response(xs, ys, probabilities, args.data, labels)
       IN  /\ pc' = "draw_response"
           /\ args' = [data |-> args.data, size |-> args.size,
                       probabilities |-> probabilities, labels |-> labels]
           /\ error' = r.error
           /\ surface' = r.surface
           /\ Z' = r.Z
           /\ UNCHANGED <<xs, ys, grid, nuisance_bins, nu_bins, p_bins, hists,
                          indx, calls, metrics>>

----------------------------------------------------------------------------
(* nuisance_prediction_hist (lines 36-79).                                 *)

\* np.arange(n)
arange(n) == [k \in 1..n |-> k - 1]

\* nuisance.dtype.kind == 'i' (line 49): true of the signed integer types
\* only; 'u' is the kind of the unsigned ones, 'f' of the floats.
is_kind_i(kind) == kind = "i"

\* line 50 / the argument: the number of nuisance bins used from line 51 on.
derived_nuisance_bins(nuisance, kind, nuisance_bins_arg) ==
  IF is_kind_i(kind) THEN SeqMax(nuisance) + 1 ELSE nuisance_bins_arg

\* The denominator of the nuisance edges: halves in the integer branch,
\* 1/1000 (for 1e-3) times the linspace step in the other.
EpsDen == 1000

NuDen(kind, nb) == IF is_kind_i(kind) THEN 2 ELSE EpsDen * LinspaceDen(nb + 1)

\* lines 51 and 53-54: the nuisance bin edges, in units of 1 / NuDen.
nuisance_edges(nuisance, kind, nb) ==
  IF is_kind_i(kind)
  THEN [k \in 1..(nb + 1) |-> 2 * arange(nb + 1)[k] - 1]
  ELSE LET delta == SeqMax(nuisance) - SeqMin(nuisance)
       IN  linspace(EpsDen * SeqMin(nuisance) - delta,
                    EpsDen * SeqMax(nuisance) + delta, nb + 1)

\* The same with one edge per requested bin more (num = prediction_bins + 1).
prediction_edges_bins(prediction_bins) == linspace(0, 1, prediction_bins + 1)

\* line 56: the prediction bin edges, in units of 1 / LinspaceDen.
prediction_edges(prediction_bins) == linspace(0, 1, prediction_bins)

\* np.searchsorted(edges, v, side='right') on increasing edges: the number
\* of edges <= v.
RECURSIVE searchsorted_right(_, _)
searchsorted_right(edges, v) ==
  IF Len(edges) = 0 \/ edges[1] > v THEN 0
  ELSE 1 + searchsorted_right(Tail(edges), v)

\* Every bin half-open, the last one too.
bin_index_half_open(edges, v) == searchsorted_right(edges, v)

\* np.histogramdd: the bin number of v, 0 and Len(edges) being the two
\* outlier bins; a value on the last edge is shifted into the last bin.
bin_index(edges, v) ==
  LET n == searchsorted_right(edges, v)
  IN  IF v = edges[Len(edges)] THEN n - 1 ELSE n

\* np.histogram2d(x, y, bins=(xedges, yedges))[0]: the counts without the
\* outlier bins, hist[i][j] for x bin i and y bin j.
histogram2d(x, y, xedges, yedges) ==
  [i \in 1..(Len(xedges) - 1) |->
    [j \in 1..(Len(yedges) - 1) |->
      Cardinality({s \in 1..Len(x) :
        bin_index(xedges, x[s]) = i /\ bin_index(yedges, y[s]) = j})]]

\* lines 58-61 for one model: prediction and nuisance are brought to the
\* units of their edges.
model_hist(proba, nuisance, kind, pb, nb) ==
  histogram2d(
    [s \in 1..Len(proba) |-> proba[s] * LinspaceDen(Len(pb))],
    [s \in 1..Len(nuisance) |-> nuisance[s] * NuDen(kind, nb)],
    [k \in 1..Len(pb) |-> pb[k] * PredDen],
    nuisance_edges(nuisance, kind, nb))

\* utils.mutual_information: a scalar that depends on the count table only.
mutual_information(hist) == [mutual_information_of |-> hist]

\* line 71: (p_bins[1:] + p_bins[:-1]) / 2, in units of 1 / (2 LinspaceDen).
bin_centres(pb) == [k \in 1..(Len(pb) - 1) |-> pb[k + 1] + pb[k]]

\* hist[:, c] with a 0-based column c.
hist_column(hist, c) == [i \in 1..Len(hist) |-> hist[i][c + 1]]

RECURSIVE in_order(_)
in_order(ss) == IF Len(ss) = 0 THEN <<>> ELSE ss[1] \o in_order(Tail(ss))

\* line 72: the column drawn in row i.
plotted_column(nb, i) == nb - i - 1

\* Column-major numbering of the subplots.
subplot_index_colmajor(i, j, nb, ncols) == j * nb + i + 1

\* line 69: the position of row i, column j (both 0-based).
subplot_index(i, j, nb, ncols) == i * ncols + j + 1

\* lines 69-79 for model j and row i (both 0-based).
cell_calls(j, i, nb, ncols, pb, hist, names) ==
  << [fn |-> "subplot", nrows |-> nb, ncols |-> ncols,
      index |-> subplot_index(i, j, nb, ncols)],
     [fn |-> "plot", x |-> bin_centres(pb),
      y |-> hist_column(hist, plotted_column(nb, i)),
      model |-> j, column |-> plotted_column(nb, i)] >>
  \o (IF i = 0
      THEN << [fn |-> "title",
               label |-> IF names # None THEN names[j + 1] ELSE <<"Model", j>>,
               mi |-> mutual_information(hist)] >>
      ELSE <<>>)

\* lines 63-79.
hist_surface(hs, nb, pb, names) ==
  << [fn |-> "subplots", nrows |-> nb, ncols |-> Len(hs)] >>
  \o in_order([j \in 1..Len(hs) |->
        in_order([i \in 1..nb |->
          cell_calls(j - 1, i - 1, nb, Len(hs), pb, hs[j], names)])])

\* Model j of m repeats the base vector shifted by j - 1 steps.
PredictionTuples(n) ==
  {[j \in 1..m |-> [s \in 1..n |->
      (p[s] + j - 1) % Cardinality(PredValues)]] :
    m \in ModelCounts, p \in [1..n -> PredValues]}

\* plt.subplots needs at least one row: a signed vector has a value >= 0.
NuisanceVectors(n) ==
  {[kind |-> "i", v |-> v] :
     v \in {w \in [1..n -> NuValuesSigned] : \E s \in 1..n : w[s] >= 0}}
  \cup {[kind |-> k, v |-> v] : k \in {"u", "f"}, v \in [1..n -> NuValues]}

ModelNames == <<"A", "B">>

NuisancePredictionHist ==
  /\ pc = "start"
  /\ \E n \in 1..MaxSamples :
     \E predictions \in PredictionTuples(n), nu \in NuisanceVectors(n),
        names \in {None, ModelNames},
        nuisance_bins_arg \in 1..MaxNuBins, prediction_bins \in 1..MaxPBins :
       LET nb == derived_nuisance_bins(nu.v, nu.kind, nuisance_bins_arg)
           pb == prediction_edges(prediction_bins)
           hs == [j \in 1..Len(predictions) |->
                   model_hist(predictions[j], nu.v, nu.kind, pb, nb)]
       IN  /\ pc' = "nuisance_prediction_hist"
           /\ args' = [predictions |-> predictions, nuisance |-> nu.v,
                       kind |-> nu.kind, names |-> names,
                       nuisance_bins |-> nuisance_bins_arg,
                       prediction_bins |-> prediction_bins]
           /\ error' = NoError
           /\ nuisance_bins' = nb
           /\ nu_bins' = nuisance_edges(nu.v, nu.kind, nb)
           /\ p_bins' = pb
           /\ hists' = hs
           /\ surface' = hist_surface(hs, nb, pb, names)
           /\ UNCHANGED <<xs, ys, grid, Z, indx, calls, metrics>>

----------------------------------------------------------------------------
(* nuisance_metric_plot (lines 99-152).  Labels, base_level and metric     *)
(* values are in tenths; the y limits are in units of 1 / (10 PadDen).     *)

\* utils.binarize(nuisance, nuisance_bins): every result its interface
\* allows for n samples: some number of bins, one edge more than bins, and
\* a bin index for every sample.  The nuisance vector enters the routine
\* through this result only.
binarize(n, target) ==
  UNION {{[indx |-> ix, nu_bins |-> [k \in 1..(b + 1) |-> k - 1]] :
            ix \in [1..n -> 0..(b - 1)]} : b \in 1..MaxBins}

\* The metric functions tried: (binary labels, predictions) -> score.
RECURSIVE dot(_, _)
dot(a, b) ==
  IF Len(a) = 0 \/ Len(b) = 0 THEN 0
  ELSE a[1] * b[1] + dot(Tail(a), Tail(b))

metric_fn(fn, ls, pred) ==
  CASE fn = "constant" -> 7
    [] fn = "dot" -> dot(ls, pred)

\* lines 106-111 and 119-126: one list per bin, filled by appending sample
\* i to the list of its bin, for i = 0, 1, ...
RECURSIVE append_loop(_, _, _, _)
append_loop(lists, values, ix, i) ==
  IF i > Len(values) THEN lists
  ELSE append_loop([lists EXCEPT ![ix[i] + 1] = Append(@, values[i])],
                   values, ix, i + 1)

RECURSIVE prepend_loop(_, _, _, _)
prepend_loop(lists, values, ix, i) ==
  IF i > Len(values) THEN lists
  ELSE prepend_loop([lists EXCEPT ![ix[i] + 1] = <<values[i]>> \o @],
                    values, ix, i + 1)

\* lines 106-116: the labels of every bin, binarized (> 0.5).
labels_binned(labels, ix, edges) ==
  LET lists == append_loop([b \in 1..(Len(edges) - 1) |-> <<>>], labels, ix, 1)
  IN  [b \in 1..Len(lists) |->
        [k \in 1..Len(lists[b]) |-> IF lists[b][k] > 5 THEN 1 ELSE 0]]

\* The predictions of a bin in reverse sample order.
proba_binned_reversed(proba, ix, edges) ==
  LET lists == prepend_loop([b \in 1..(Len(edges) - 1) |-> <<>>], proba, ix, 1)
  IN  [b \in 1..Len(lists) |->
        [k \in 1..Len(lists[b]) |-> ToFloat32(lists[b][k])]]

\* lines 119-128: the predictions of every bin, as float32.
proba_binned(proba, ix, edges) ==
  LET lists == append_loop([b \in 1..(Len(edges) - 1) |-> <<>>], proba, ix, 1)
  IN  [b \in 1..Len(lists) |->
        [k \in 1..Len(lists[b]) |-> ToFloat32(lists[b][k])]]

\* lines 130-133 for model j (0-based): the calls to metric_fn, in order.
model_calls(fn, j, proba, labels, ix, edges) ==
  LET lb == labels_binned(labels, ix, edges)
      pb == proba_binned(proba, ix, edges)
  IN  [b \in 1..Len(pb) |->
        [model |-> j, bin |-> b - 1, labels |-> lb[b], predictions |-> pb[b],
         result |-> metric_fn(fn, lb[b], pb[b])]]

\* The lower limit without the base level.
y_limits_no_base(ms, base_level) ==
  LET m_min == SeqMin([i \in 1..Len(ms) |-> SeqMin(ms[i])])
      m_max == SeqMax([i \in 1..Len(ms) |-> SeqMax(ms[i])])
      m_delta == m_max - m_min
  IN  <<PadDen * m_min, PadDen * m_max + m_delta>>

\* lines 143-147: the argument of plt.ylim.
y_limits(ms, base_level) ==
  LET m_min == SeqMin([i \in 1..Len(ms) |-> SeqMin(ms[i])])
      m_max == SeqMax([i \in 1..Len(ms) |-> SeqMax(ms[i])])
      m_delta == m_max - m_min
  IN  <<PadDen * (IF m_min < base_level THEN m_min ELSE base_level),
        PadDen * m_max + m_delta>>

\* lines 137-152.
metric_surface(ms, edges, base_level, names) ==
  [i \in 1..Len(ms) |->
    [fn |-> "plot", x |-> bin_centres(edges), y |-> ms[i],
     label |-> IF names # None THEN names[i] ELSE None]]
  \o << [fn |-> "ylim", limits |-> y_limits(ms, base_level)],
        [fn |-> "ylabel", text |-> "metric"],
        [fn |-> "xlabel", text |-> "nuisance parameter"] >>
  \o (IF names # None THEN << [fn |-> "legend"] >> ELSE <<>>)

\* The other of the two score values.
OtherScore(v) == CHOOSE w \in ScoreValues : w # v

\* Model 1 is the base vector; model 2 has the other score on every sample
\* but the first.
ScoreTuples(n) ==
  {[j \in 1..m |-> [s \in 1..n |->
      IF j = 1 \/ s = 1 THEN p[s] ELSE OtherScore(p[s])]] :
    m \in ModelCounts, p \in [1..n -> ScoreValues]}

NuisanceMetricPlot ==
  /\ pc = "start"
  /\ \E n \in 1..MaxSamples :
     \E predictions \in ScoreTuples(n), labels \in [1..n -> LabelValues],
        fn \in MetricFns, base_level \in BaseLevels,
        names \in {None, ModelNames}, nuisance_bins_arg \in {MaxBins},
        binned \in binarize(n, MaxBins) :
       LET cs == [j \in 1..Len(predictions) |->
                   model_calls(fn, j - 1, predictions[j], labels,
                               binned.indx, binned.nu_bins)]
           ms == [j \in 1..Len(cs) |->
                   [b \in 1..Len(cs[j]) |-> cs[j][b].result]]
       IN  /\ pc' = "nuisance_metric_plot"
           /\ args' = [predictions |-> predictions, labels |-> labels,
                       metric_fn |-> fn, base_level |-> base_level,
                       names |-> names, nuisance_bins |-> nuisance_bins_arg]
           /\ error' = NoError
           /\ indx' = binned.indx
           /\ nu_bins' = binned.nu_bins
           /\ calls' = in_order(cs)
           /\ metrics' = ms
           /\ surface' = metric_surface(ms, binned.nu_bins, base_level, names)
           /\ UNCHANGED <<xs, ys, grid, Z, nuisance_bins, p_bins, hists>>

----------------------------------------------------------------------------
Init ==
  /\ pc = "start"
  /\ args = <<>>
  /\ error = NoError
  /\ surface = <<>>
  /\ xs = <<>> /\ ys = <<>> /\ grid = <<>> /\ Z = <<>>
  /\ nuisance_bins = 0 /\ nu_bins = <<>> /\ p_bins = <<>> /\ hists = <<>>
  /\ indx = <<>> /\ calls = <<>> /\ metrics = <<>>

NextGrid == MakeGrid \/ DrawResponse

SpecGrid == Init /\ [][NextGrid]_vars

NextHist == NuisancePredictionHist

SpecHist == Init /\ [][NextHist]_vars

NextMetric == NuisanceMetricPlot

SpecMetric == Init /\ [][NextMetric]_vars

----------------------------------------------------------------------------
(* Claims about make_grid and draw_response, checked under SpecGrid.       *)

GridBuilt == pc \in {"make_grid", "draw_response"}

\* 0-based flat index k of the grid: its x index and its y index (1-based).
XIndex(k) == (k % Len(xs)) + 1
YIndex(k) == (k \div Len(xs)) + 1

EvenlySpaced(a) ==
  \A j \in 1..(Len(a) - 2) : a[j + 2] - a[j + 1] = a[j + 1] - a[j]

GridShape ==
  /\ Len(xs) = args.size
  /\ Len(ys) = args.size
  /\ Len(grid) = args.size * args.size
  /\ EvenlySpaced(xs)
  /\ EvenlySpaced(ys)

\* C5 as stated: make_grid returns size*size pairs, and row k of the grid
\* equals (xs[k mod size], ys[k div size]), with xs and ys evenly spaced.
C5_Original ==
  GridBuilt =>
    /\ GridShape
    /\ \A k \in 0..(Len(grid) - 1) :
         grid[k + 1] = <<xs[XIndex(k)], ys[YIndex(k)]>>

\* C5 amended: make_grid returns size*size pairs, and row k of the grid is
\* (xs[k mod size], ys[k div size]) converted to float32, with xs and ys
\* evenly spaced.
C5_Amended ==
  GridBuilt =>
    /\ GridShape
    /\ \A k \in 0..(Len(grid) - 1) :
         grid[k + 1] = <<ToFloat32(xs[XIndex(k)]), ToFloat32(ys[YIndex(k)])>>

\* A 3 x 3 grid with distinct points on both axes, axes that differ, and a
\* coordinate that float32 does not hold exactly.
C5_Witness ==
  /\ pc = "make_grid"
  /\ args.size = 3
  /\ xs[1] < xs[2] /\ ys[1] < ys[2] /\ xs # ys
  /\ \E k \in 0..(Len(grid) - 1) : grid[k + 1][1] # xs[XIndex(k)]

\* The axis minimum, maximum and range of the data, from the definition of
\* minimum and maximum.
AxisValues(c) == {args.data[r][c] : r \in 1..Len(args.data)}
AxisMin(c) == CHOOSE m \in AxisValues(c) : \A v \in AxisValues(c) : m <= v
AxisMax(c) == CHOOSE m \in AxisValues(c) : \A v \in AxisValues(c) : m >= v
AxisRange(c) == AxisMax(c) - AxisMin(c)
Axis(c) == IF c = 1 THEN xs ELSE ys

\* v minus (plus) 5% of the range r, in units of 1 / GridDen(size).
Minus5(v, r) == LinspaceDen(args.size) * (PadDen * v - r)
Plus5(v, r) == LinspaceDen(args.size) * (PadDen * v + r)
Exactly(v) == GridDen(args.size) * v

\* C8 as stated: on each axis the first grid point is min - 5% of the range
\* and the last is max + 5% of the range, so the bounds strictly contain min
\* and max when the range is positive; with a zero range every grid point of
\* the axis is the observed value.
C8_Original ==
  GridBuilt =>
    \A c \in {1, 2} :
      LET a == Axis(c) IN
      /\ a[1] = Minus5(AxisMin(c), AxisRange(c))
      /\ a[Len(a)] = Plus5(AxisMax(c), AxisRange(c))
      /\ AxisRange(c) > 0 =>
           a[1] < Exactly(AxisMin(c)) /\ a[Len(a)] > Exactly(AxisMax(c))
      /\ AxisRange(c) = 0 =>
           \A j \in 1..Len(a) : a[j] = Exactly(AxisMin(c))

\* C8 amended: the first grid point is min - 5% of the range for every
\* size; the last grid point is max + 5% of the range when size >= 2 (with
\* size = 1 the only grid point is min - 5% of the range); with a zero range
\* every grid point of the axis is the observed value.
C8_Amended ==
  GridBuilt =>
    \A c \in {1, 2} :
      LET a == Axis(c) IN
      /\ a[1] = Minus5(AxisMin(c), AxisRange(c))
      /\ args.size >= 2 => a[Len(a)] = Plus5(AxisMax(c), AxisRange(c))
      /\ args.size = 1 => Len(a) = 1
      /\ AxisRange(c) > 0 =>
           /\ a[1] < Exactly(AxisMin(c))
           /\ args.size >= 2 => a[Len(a)] > Exactly(AxisMax(c))
      /\ AxisRange(c) = 0 =>
           \A j \in 1..Len(a) : a[j] = Exactly(AxisMin(c))

\* One axis with a positive range and one with a zero range, size >= 2.
C8_Witness ==
  /\ pc = "make_grid"
  /\ args.size >= 2
  /\ AxisRange(1) > 0
  /\ AxisRange(2) = 0

SizesMatch == Len(args.probabilities) = Len(xs) * Len(ys)

\* The contour calls draw cell [i][j] of their z argument at (x[j], y[i]).
DrawnAt(call, k) == <<call.x[XIndex(k)], call.y[YIndex(k)]>>
CellOf(call, k) == call.z[YIndex(k)][XIndex(k)]

Reshaped ==
  /\ error = NoError
  /\ Len(Z) = Len(ys)
  /\ \A i \in 1..Len(Z) : Len(Z[i]) = Len(xs)
  /\ Len(surface) = 4
  /\ surface[1].fn = "contourf" /\ surface[4].fn = "contour"
  /\ \A k \in 0..(Len(xs) * Len(ys) - 1) :
       /\ Z[YIndex(k)][XIndex(k)] = args.probabilities[k + 1]
       /\ CellOf(surface[1], k) = args.probabilities[k + 1]
       /\ CellOf(surface[4], k) = args.probabilities[k + 1]

\* C6 as stated: a probability vector of the size of the grid is reshaped
\* without error so that flat index k lands in cell [k div nx][k mod nx],
\* and the contour calls draw that cell at the coordinates of row k of the
\* grid.
C6_Original ==
  (pc = "draw_response" /\ SizesMatch) =>
    /\ Reshaped
    /\ \A k \in 0..(Len(grid) - 1) :
         /\ DrawnAt(surface[1], k) = grid[k + 1]
         /\ DrawnAt(surface[4], k) = grid[k + 1]

\* C6 amended: as stated, except that row k of the grid holds the float32
\* conversion of the coordinates at which the contour calls draw the cell.
C6_Amended ==
  (pc = "draw_response" /\ SizesMatch) =>
    /\ Reshaped
    /\ \A k \in 0..(Len(grid) - 1) :
         /\ grid[k + 1] = <<ToFloat32(DrawnAt(surface[1], k)[1]),
                            ToFloat32(DrawnAt(surface[1], k)[2])>>
         /\ DrawnAt(surface[4], k) = DrawnAt(surface[1], k)

\* A 3 x 3 grid drawn from a vector whose nine entries are all distinct.
C6_Witness ==
  /\ pc = "draw_response"
  /\ SizesMatch
  /\ Len(xs) = 3
  /\ xs[1] < xs[2] /\ ys[1] < ys[2] /\ xs # ys
  /\ \A k \in 1..Len(args.probabilities) : args.probabilities[k] = k

\* C10: when probabilities.size differs from xs.size * ys.size,
\* draw_response ends with the reshape's ValueError and has issued no draw
\* call.
C10_MismatchFailsBeforeDrawing ==
  (pc = "draw_response" /\ ~SizesMatch) =>
    /\ error = ShapeError
    /\ surface = <<>>
    /\ Z = <<>>

\* A vector one entry too long for a grid of one column.
C10_Witness ==
  /\ pc = "draw_response"
  /\ Len(args.probabilities) = Len(xs) * Len(ys) + 1
  /\ error = ShapeError

----------------------------------------------------------------------------
(* Claims about nuisance_prediction_hist, checked under SpecHist.          *)

HistDone == pc = "nuisance_prediction_hist"

Models == 1..Len(args.predictions)
Samples == 1..Len(args.nuisance)

RECURSIVE SeqSum(_)
SeqSum(a) == IF Len(a) = 0 THEN 0 ELSE a[1] + SeqSum(Tail(a))

\* The sum of all cells of a count table.
TableSum(hist) == SeqSum([i \in 1..Len(hist) |-> SeqSum(hist[i])])

\* Every prediction of model j lies in [0, 1].
PredictionsInUnitInterval(j) ==
  \A s \in Samples :
    args.predictions[j][s] >= 0 /\ args.predictions[j][s] <= PredDen

\* Every nuisance value lies between the first and the last nuisance edge.
NuisanceInsideEdges ==
  \A s \in Samples :
    LET v == args.nuisance[s] * NuDen(args.kind, nuisance_bins)
    IN  nu_bins[1] <= v /\ v <= nu_bins[Len(nu_bins)]

IntegerTyped == args.kind \in {"i", "u"}

NuisanceMax ==
  CHOOSE m \in {args.nuisance[s] : s \in Samples} :
    \A s \in Samples : args.nuisance[s] <= m

\* C2 as stated: for an integer-typed nuisance vector of maximum M the
\* nuisance_bins argument is ignored, the bin count is M + 1 and the edges
\* are k - 0.5 for k = 0..M+1.
C2_Claim ==
  (HistDone /\ IntegerTyped) =>
    /\ nuisance_bins = NuisanceMax + 1
    /\ Len(nu_bins) = NuisanceMax + 2
    /\ \A k \in 0..(NuisanceMax + 1) :
         2 * nu_bins[k + 1] = NuDen(args.kind, nuisance_bins) * (2 * k - 1)

\* The plot call issued right after the subplot call at position n.
IsCellAt(n, j, i) ==
  /\ surface[n].fn = "subplot"
  /\ surface[n].nrows = nuisance_bins
  /\ surface[n].ncols = Len(args.predictions)
  /\ surface[n].index = i * Len(args.predictions) + j + 1
  /\ n + 1 <= Len(surface)
  /\ surface[n + 1].fn = "plot"
  /\ surface[n + 1].model = j
  /\ surface[n + 1].column = nuisance_bins - 1 - i
  /\ surface[n + 1].y =
       [b \in 1..Len(hists[j + 1]) |-> hists[j + 1][b][nuisance_bins - i]]

CallsOf(fn) == {n \in 1..Len(surface) : surface[n].fn = fn}

\* The title follows the plot of the top row of a column.
IsTitleAt(n) ==
  /\ n > 2
  /\ surface[n - 2].fn = "subplot"
  /\ surface[n - 2].index \in 1..Len(args.predictions)
  /\ surface[n].mi = mutual_information(hists[surface[n - 1].model + 1])
  /\ surface[n].label =
       IF args.names = None THEN <<"Model", surface[n - 1].model>>
       ELSE args.names[surface[n - 1].model + 1]

\* C3: one subplots call of nuisance_bins rows by len(predictions) columns;
\* for every model j and row i the column nuisance_bins-1-i of model j is
\* drawn at position i*len(predictions)+j+1, exactly once; every position
\* is used exactly once; the last nuisance bin is in the top row; titles
\* are set on the top row of each column only.
C3_SubplotLayout ==
  HistDone =>
    LET ncols == Len(args.predictions) IN
    /\ surface[1] = [fn |-> "subplots", nrows |-> nuisance_bins, ncols |-> ncols]
    /\ CallsOf("subplots") = {1}
    /\ \A j \in 0..(ncols - 1), i \in 0..(nuisance_bins - 1) :
         Cardinality({n \in 1..Len(surface) : IsCellAt(n, j, i)}) = 1
    /\ Cardinality(CallsOf("subplot")) = nuisance_bins * ncols
    /\ Cardinality(CallsOf("plot")) = nuisance_bins * ncols
    /\ \A pos \in 1..(nuisance_bins * ncols) :
         Cardinality({n \in CallsOf("subplot") : surface[n].index = pos}) = 1
    /\ \A n \in CallsOf("subplot") :
         surface[n].index <= ncols =>
           surface[n + 1].column = nuisance_bins - 1
    /\ Cardinality(CallsOf("title")) = ncols
    /\ \A n \in CallsOf("title") : IsTitleAt(n)

\* Two models and three nuisance bins.
C3_Witness ==
  /\ HistDone
  /\ Len(args.predictions) = 2
  /\ nuisance_bins = 3
  /\ hists[1] # hists[2]

----------------------------------------------------------------------------
(* Claims about nuisance_metric_plot, checked under SpecMetric.            *)

MetricDone == pc = "nuisance_metric_plot"

NumBins == Len(nu_bins) - 1

\* The samples whose bin index is b, in original sample order.
SamplesOfBin(b) ==
  LET S == {s \in 1..Len(indx) : indx[s] = b}
  IN  CHOOSE f \in [1..Cardinality(S) -> S] :
        \A k \in 1..(Cardinality(S) - 1) : f[k] < f[k + 1]

Binarized(l) == IF l > 5 THEN 1 ELSE 0

\* The calls made to metric_fn for model j and bin b (both 0-based).
CallsFor(j, b) ==
  {n \in 1..Len(calls) : calls[n].model = j /\ calls[n].bin = b}

\* C4: for every model and every nuisance bin the metric function is called
\* exactly once, on the binarized labels and on that model's predictions
\* (as float32) of exactly the samples of the bin, both in sample order;
\* the results are one value per bin per model, plotted as one line per
\* model in the order of the predictions tuple.
C4_MetricPerBin ==
  MetricDone =>
    LET m == Len(args.predictions) IN
    /\ Len(calls) = m * NumBins
    /\ Len(metrics) = m
    /\ \A j \in 0..(m - 1), b \in 0..(NumBins - 1) :
         LET sel == SamplesOfBin(b) IN
         /\ Cardinality(CallsFor(j, b)) = 1
         /\ \A n \in CallsFor(j, b) :
              /\ calls[n].labels =
                   [k \in 1..Len(sel) |-> Binarized(args.labels[sel[k]])]
              /\ calls[n].predictions =
                   [k \in 1..Len(sel) |->
                     ToFloat32(args.predictions[j + 1][sel[k]])]
              /\ metrics[j + 1][b + 1] =
                   metric_fn(args.metric_fn, calls[n].labels,
                             calls[n].predictions)
         /\ Len(metrics[j + 1]) = NumBins
    /\ \A j \in 1..m :
         /\ surface[j].fn = "plot"
         /\ surface[j].y = metrics[j]
         /\ Len(surface[j].x) = NumBins
    /\ Cardinality(CallsOf("plot")) = m

\* Two models; one bin holds two samples whose labels binarize differently
\* and whose predictions differ, the other bin is empty.
C4_Witness ==
  /\ MetricDone
  /\ Len(args.predictions) = 2
  /\ NumBins = 2
  /\ indx = <<1, 1>>
  /\ args.labels = <<5, 10>>
  /\ args.predictions[1][1] # args.predictions[1][2]
  /\ args.metric_fn = "dot"

MetricValues ==
  {metrics[j][b] : j \in 1..Len(metrics), b \in 1..NumBins}

MetricMin == CHOOSE v \in MetricValues : \A w \in MetricValues : v <= w
MetricMax == CHOOSE v \in MetricValues : \A w \in MetricValues : v >= w

\* The limits of the one plt.ylim call, in units of 1 / (10 PadDen).
YLimits == surface[CHOOSE n \in CallsOf("ylim") : TRUE].limits

\* C7: the y limits are [min(m_min, base_level), m_max + 0.05 (m_max -
\* m_min)]; the lower limit exceeds neither base_level nor a plotted value,
\* the upper limit is below no plotted value, and a metric constant at 0.7
\* with base_level 0.5 gives [0.5, 0.7].
C7_YLimits ==
  MetricDone =>
    /\ Cardinality(CallsOf("ylim")) = 1
    /\ YLimits[1] = PadDen * (IF MetricMin < args.base_level
                              THEN MetricMin ELSE args.base_level)
    /\ YLimits[2] = PadDen * MetricMax + (MetricMax - MetricMin)
    /\ YLimits[1] <= PadDen * args.base_level
    /\ \A v \in MetricValues :
         YLimits[1] <= PadDen * v /\ PadDen * v <= YLimits[2]
    /\ (MetricValues = {7} /\ args.base_level = 5) =>
         YLimits = <<PadDen * 5, PadDen * 7>>

\* A metric constant at 0.7 for two models and two bins, base_level 0.5.
C7_Witness ==
  /\ MetricDone
  /\ args.metric_fn = "constant"
  /\ args.base_level = 5
  /\ Len(metrics) = 2 /\ NumBins = 2
  /\ YLimits = <<100, 140>>

====
